---------------------------- MODULE Spec2Model ----------------------------
(***************************************************************************)
(* Model of src/app.py: the in-memory catalogue of works ("obras"), its    *)
(* HTTP handlers, the CSV import and export, and the temporary file of an  *)
(* export.                                                                 *)
(*                                                                         *)
(* Text is a sequence of one-character strings, so that the CSV writer and *)
(* reader and the literal parser work on characters as the library code    *)
(* does.  A timestamp is an integer number of clock ticks.                 *)
(***************************************************************************)
EXTENDS Integers, Sequences, FiniteSets, TLC

VARIABLES
    obras,      \* the module-level store `obras = Obras()`: [obras, current_id]
    now,        \* the latest value the clock (datetime.utcnow) has returned
    response,   \* the response of the latest request
    files,      \* names of the temporary files that exist on disk
    sending,    \* names of the files whose FileResponse is still being sent
    issued,     \* history: the ids given out by append, in order
    deleted,    \* history: the ids whose delete succeeded
    fresh,      \* a second, empty store that an exported file is imported into
    pc,         \* parallel workers: the position of each in its operation
    loc         \* parallel workers: the local variables of each

vars == <<obras, now, response, files, sending, issued, deleted, fresh, pc, loc>>

(***************************************************************************)
(* Bounds of the model.                                                    *)
(***************************************************************************)
MaxId    == 3    \* appends per store
MaxTime  == 1    \* clock ticks
MaxFiles == 1    \* temporary files on disk at once
MaxRecs  == 2    \* records in the store that is exported and re-imported
MaxCalls == 2    \* appends the parallel workers make

(***************************************************************************)
(* Text.                                                                   *)
(***************************************************************************)
None == <<"None">>   \* Python's None where a text may stand (no text holds a 4-letter item)

COMMA == ","
QUOTE == "\""
APOS  == "'"
BSL   == "\\"
SPACE == " "
CR    == "\r"
LF    == "\n"
EOL   == "EOL"       \* the reader's end-of-line signal, fed after each line

\* the element of a one-element set; Only({F(x) : x \in {e}}) is F(e) with e
\* evaluated once
Only(S) == CHOOSE x \in S : TRUE

RECURSIVE Join(_, _)
\* sep.join(parts)
Join(parts, sep) ==
    IF parts = <<>> THEN <<>>
    ELSE IF Len(parts) = 1 THEN parts[1]
    ELSE parts[1] \o sep \o Join(Tail(parts), sep)

RECURSIVE Concat(_)
Concat(parts) == IF parts = <<>> THEN <<>> ELSE parts[1] \o Concat(Tail(parts))

Has(s, c) == \E i \in 1..Len(s) : s[i] = c

Digit(n) ==
    CASE n = 0 -> "0" [] n = 1 -> "1" [] n = 2 -> "2" [] n = 3 -> "3"
      [] n = 4 -> "4" [] n = 5 -> "5" [] n = 6 -> "6" [] n = 7 -> "7"
      [] n = 8 -> "8" [] n = 9 -> "9"

RECURSIVE IntToStr(_)
\* str(n) of a non-negative integer: its decimal digits
IntToStr(n) ==
    IF n < 10 THEN <<Digit(n)>> ELSE IntToStr(n \div 10) \o <<Digit(n % 10)>>

\* repr(s) of a str: single quotes unless s holds a single and no double quote;
\* the backslash and the chosen quote are escaped
StrRepr(s) ==
    LET q == IF Has(s, APOS) /\ ~Has(s, QUOTE) THEN QUOTE ELSE APOS
        esc(c) == IF c = BSL \/ c = q THEN <<BSL, c>> ELSE <<c>>
    IN  <<q>> \o Concat([i \in 1..Len(s) |-> esc(s[i])]) \o <<q>>

\* str(l) of a list of str: "[" + ", ".join(repr(x) for x in l) + "]"
ListStr(l) ==
    <<"[">> \o Join([i \in 1..Len(l) |-> StrRepr(l[i])], <<COMMA, SPACE>>) \o <<"]">>

(***************************************************************************)
(* csv.DictWriter(f, fieldnames=obras_list[0].keys()) with the default     *)
(* dialect: delimiter ",", quotechar '"', doublequote, QUOTE_MINIMAL,      *)
(* lineterminator "\r\n".  The file is opened with newline='', so the      *)
(* text is written as it is.                                               *)
(***************************************************************************)
FieldNames ==
    << <<"t","i","t","u","l","o">>, <<"e","d","i","t","o","r","a">>,
       <<"f","o","t","o">>, <<"a","u","t","o","r","e","s">>, <<"i","d">>,
       <<"c","r","e","a","t","e","d","_","a","t">>,
       <<"u","p","d","a","t","e","d","_","a","t">> >>

TITULO  == FieldNames[1]
EDITORA == FieldNames[2]
FOTO    == FieldNames[3]
AUTORES == FieldNames[4]

\* one field as the writer emits it: quoted only when it holds the delimiter,
\* the quote character or a character of the line terminator; quotes doubled
CsvField(s) ==
    LET special(c) == c \in {COMMA, QUOTE, CR, LF}
        body == Concat([i \in 1..Len(s) |->
                          IF s[i] = QUOTE THEN <<QUOTE, QUOTE>> ELSE <<s[i]>>])
    IN  IF \E i \in 1..Len(s) : special(s[i])
        THEN <<QUOTE>> \o body \o <<QUOTE>>
        ELSE s

\* writer.writerow(fields)
CsvRow(fields) ==
    Join([i \in 1..Len(fields) |-> CsvField(fields[i])], <<COMMA>>) \o <<CR, LF>>

\* the values of one obra.dict() in the order of the field names, each as
\* the writer's str() of it
DictValues(o) ==
    << o.titulo, o.editora, o.foto, ListStr(o.autores), IntToStr(o.id),
       IntToStr(o.created_at), IntToStr(o.updated_at) >>

\* fc.writeheader(); fc.writerows(obras_list)
WriteCsv(obras_list) ==
    CsvRow(FieldNames)
      \o Concat([i \in 1..Len(obras_list) |-> CsvRow(DictValues(obras_list[i]))])

(***************************************************************************)
(* csv.reader(file, skipinitialspace=True): the state machine of the       *)
(* library's parse_process_char, fed the characters of each line and then  *)
(* the end-of-line signal.                                                 *)
(***************************************************************************)
ReaderStart ==
    [state |-> "START_RECORD", field |-> <<>>, fields |-> <<>>,
     records |-> <<>>, error |-> FALSE]

save_field(r) == [r EXCEPT !.fields = Append(@, r.field), !.field = <<>>]
add_char(r, c) == [r EXCEPT !.field = Append(@, c)]
goto(r, s) == [r EXCEPT !.state = s]

start_field(r, c) ==
    IF c \in {LF, CR, EOL}
    THEN goto(save_field(r), IF c = EOL THEN "START_RECORD" ELSE "EAT_CRNL")
    ELSE IF c = QUOTE THEN goto(r, "IN_QUOTED_FIELD")
    ELSE IF c = SPACE THEN goto(r, "START_FIELD")          \* skipinitialspace
    ELSE IF c = COMMA THEN goto(save_field(r), "START_FIELD")
    ELSE goto(add_char(r, c), "IN_FIELD")

parse_process_char(r, c) ==
    CASE r.state = "START_RECORD" ->
            IF c = EOL THEN r
            ELSE IF c \in {LF, CR} THEN goto(r, "EAT_CRNL")
            ELSE start_field(r, c)
      [] r.state = "START_FIELD" -> start_field(r, c)
      [] r.state = "IN_FIELD" ->
            IF c \in {LF, CR, EOL}
            THEN goto(save_field(r), IF c = EOL THEN "START_RECORD" ELSE "EAT_CRNL")
            ELSE IF c = COMMA THEN goto(save_field(r), "START_FIELD")
            ELSE add_char(r, c)
      [] r.state = "IN_QUOTED_FIELD" ->
            IF c = EOL THEN r
            ELSE IF c = QUOTE THEN goto(r, "QUOTE_IN_QUOTED_FIELD")
            ELSE add_char(r, c)
      [] r.state = "QUOTE_IN_QUOTED_FIELD" ->
            IF c = QUOTE THEN goto(add_char(r, c), "IN_QUOTED_FIELD")
            ELSE IF c = COMMA THEN goto(save_field(r), "START_FIELD")
            ELSE IF c \in {LF, CR, EOL}
            THEN goto(save_field(r), IF c = EOL THEN "START_RECORD" ELSE "EAT_CRNL")
            ELSE goto(add_char(r, c), "IN_FIELD")
      [] r.state = "EAT_CRNL" ->
            IF c \in {LF, CR} THEN r
            ELSE IF c = EOL THEN goto(r, "START_RECORD")
            ELSE [r EXCEPT !.error = TRUE]

\* the end of a line: the signal is fed, and the record is returned when the
\* parser is back at the start of a record
end_of_line(r) ==
    LET e == parse_process_char(r, EOL)
    IN  IF e.error \/ e.state # "START_RECORD" THEN e
        ELSE [e EXCEPT !.records = Append(@, e.fields), !.fields = <<>>,
                       !.field = <<>>]

\* one character of the text; the lines are those a StringIO yields, each
\* ending after "\n"
read_char(r, c) ==
    IF r.error THEN r
    ELSE Only({IF c = LF /\ ~p.error THEN end_of_line(p) ELSE p :
                 p \in {parse_process_char(r, c)}})

RECURSIVE read_chars(_, _, _, _)
\* the characters lo..hi of the text, in order (halved to keep the nesting low)
read_chars(r, text, lo, hi) ==
    IF lo > hi THEN r
    ELSE IF lo = hi THEN read_char(r, text[lo])
    ELSE Only({read_chars(left, text, ((lo + hi) \div 2) + 1, hi) :
                 left \in {read_chars(r, text, lo, (lo + hi) \div 2)}})

\* the whole text, then the end of the input: a last line without "\n" ends,
\* and a record still open (a quoted field never closed) is returned
end_of_input(r, text) ==
    Only({IF ~last.error /\ (last.field # <<>> \/ last.state = "IN_QUOTED_FIELD")
          THEN [last EXCEPT !.records = Append(@, Append(last.fields, last.field)),
                            !.fields = <<>>, !.field = <<>>,
                            !.state = "START_RECORD"]
          ELSE last :
            last \in {IF ~r.error /\ text # <<>> /\ text[Len(text)] # LF
                      THEN end_of_line(r) ELSE r}})

read_lines(text) ==
    Only({end_of_input(r, text) :
            r \in {read_chars(ReaderStart, text, 1, Len(text))}})

\* list(csv.reader(StringIO(text), skipinitialspace=True)); error: the reader
\* raised csv.Error after the records listed
reader(text) ==
    Only({[records |-> r.records, error |-> r.error] : r \in {read_lines(text)}})

\* csv.DictReader: the first record is the field names, a record [] (a blank
\* line) is skipped, and each other record is a dict of the field names
DictReader(text) ==
    Only({[fieldnames |-> IF r.records = <<>> THEN <<>> ELSE r.records[1],
           rows       |-> IF r.records = <<>> THEN <<>>
                          ELSE SelectSeq(Tail(r.records), LAMBDA x : x # <<>>),
           error      |-> r.error] :
            r \in {reader(text)}})

\* row[key] of dict(zip(fieldnames, row)), the names beyond the row's length
\* set to None: the last column of that name decides; found = FALSE: KeyError
RowGet(fieldnames, row, key) ==
    LET at == {i \in 1..Len(fieldnames) : fieldnames[i] = key}
        last == CHOOSE i \in at : \A j \in at : j <= i
    IN  IF at = {} THEN [found |-> FALSE, value |-> None]
        ELSE [found |-> TRUE,
              value |-> IF last <= Len(row) THEN row[last] ELSE None]

(***************************************************************************)
(* ast.literal_eval(cell) for the literals the import is meant for: a      *)
(* bracketed list of string literals in single or double quotes, with      *)
(* backslash escapes, blanks between the tokens, adjacent literals joined  *)
(* and a trailing comma allowed.  ok = FALSE: the call raised (ValueError  *)
(* or SyntaxError), which is also what None (an absent cell) does.         *)
(***************************************************************************)
EvalStart == [mode |-> "start", q |-> APOS, cur |-> <<>>, items |-> <<>>]

eval_char(e, c) ==
    CASE e.mode = "start" ->
            IF c = SPACE THEN e
            ELSE IF c = "[" THEN [e EXCEPT !.mode = "open"]
            ELSE [e EXCEPT !.mode = "fail"]
      [] e.mode \in {"open", "comma"} ->
            IF c = SPACE THEN e
            ELSE IF c = "]" THEN [e EXCEPT !.mode = "done"]
            ELSE IF c \in {APOS, QUOTE}
            THEN [e EXCEPT !.mode = "in_str", !.q = c, !.cur = <<>>]
            ELSE [e EXCEPT !.mode = "fail"]
      [] e.mode = "in_str" ->
            IF c = e.q
            THEN [e EXCEPT !.mode = "item", !.items = Append(@, e.cur), !.cur = <<>>]
            ELSE IF c = BSL THEN [e EXCEPT !.mode = "escape"]
            ELSE IF c \in {LF, CR} THEN [e EXCEPT !.mode = "fail"]
            ELSE [e EXCEPT !.cur = Append(@, c)]
      [] e.mode = "escape" ->
            [e EXCEPT !.mode = "in_str",
                      !.cur = IF c \in {BSL, APOS, QUOTE} THEN Append(@, c)
                              ELSE IF c = "n" THEN Append(@, LF)
                              ELSE IF c = "r" THEN Append(@, CR)
                              ELSE @ \o <<BSL, c>>]
      [] e.mode = "item" ->
            IF c = SPACE THEN e
            ELSE IF c = COMMA THEN [e EXCEPT !.mode = "comma"]
            ELSE IF c = "]" THEN [e EXCEPT !.mode = "done"]
            ELSE IF c \in {APOS, QUOTE}
            THEN [e EXCEPT !.mode = "in_str", !.q = c,
                           !.cur = e.items[Len(e.items)],
                           !.items = SubSeq(@, 1, Len(@) - 1)]
            ELSE [e EXCEPT !.mode = "fail"]
      [] e.mode = "done" ->
            IF c = SPACE THEN e ELSE [e EXCEPT !.mode = "fail"]
      [] e.mode = "fail" -> e

RECURSIVE eval_chars(_, _, _, _)
\* the characters lo..hi of the cell, in order (halved to keep the nesting low)
eval_chars(e, s, lo, hi) ==
    IF lo > hi THEN e
    ELSE IF lo = hi THEN eval_char(e, s[lo])
    ELSE Only({eval_chars(left, s, ((lo + hi) \div 2) + 1, hi) :
                 left \in {eval_chars(e, s, lo, (lo + hi) \div 2)}})

literal_eval(cell) ==
    IF cell = None THEN [ok |-> FALSE, value |-> <<>>]
    ELSE Only({[ok |-> e.mode = "done",
                 value |-> IF e.mode = "done" THEN e.items ELSE <<>>] :
                 e \in {eval_chars(EvalStart, cell, 1, Len(cell))}})

(***************************************************************************)
(* The models CreateObra and Obra, and the class Obras.  A store is the    *)
(* record [obras, current_id] of an Obras object's two attributes.         *)
(***************************************************************************)
CreateFields == {"titulo", "editora", "foto", "autores"}

\* CreateObra(**body): the four declared fields; pydantic drops every other key
CreateObra(body) == [k \in CreateFields |-> body[k]]

\* Obra(**obra.dict(), id=..., created_at=..., updated_at=...)
Obra(obra, id, created_at, updated_at) ==
    [titulo |-> obra.titulo, editora |-> obra.editora, foto |-> obra.foto,
     autores |-> obra.autores, id |-> id,
     created_at |-> created_at, updated_at |-> updated_at]

\* Obras.__init__
NewObras == [obras |-> <<>>, current_id |-> Len(<<>>)]

\* a variant of append that numbers the new record by the length of the list
append_by_len(st, obra, t_arg, t_default) ==
    LET cur == Len(st.obras) + 1
        result == Obra(obra, cur, t_default, t_arg)
    IN  [store  |-> [obras |-> Append(st.obras, result), current_id |-> cur],
         result |-> result]

\* the greatest number of a set of naturals, 0 for the empty set
Greatest(S) == IF S = {} THEN 0 ELSE CHOOSE x \in S : \A y \in S : y <= x

\* a variant of append that numbers the new record one above the greatest id
\* of the records in the list
append_after_max(st, obra, t_arg, t_default) ==
    LET cur == Greatest({st.obras[k].id : k \in 1..Len(st.obras)}) + 1
        result == Obra(obra, cur, t_default, t_arg)
    IN  [store  |-> [obras |-> Append(st.obras, result), current_id |-> cur],
         result |-> result]

\* Obras.append.  self._current_id += 1; then the arguments of Obra(...) are
\* evaluated, updated_at=utcnow() among them (the clock read t_arg), and only
\* then does the constructor run created_at's default_factory (the later
\* clock read t_default).
append(st, obra, t_arg, t_default) ==
    LET cur == st.current_id + 1
        result == Obra(obra, cur, t_default, t_arg)
    IN  [store  |-> [obras |-> Append(st.obras, result), current_id |-> cur],
         result |-> result]

\* a variant of matching_obra_index that takes the id for the position
matching_obra_index_by_position(list, obra_id) ==
    IF obra_id \in 1..Len(list) THEN obra_id ELSE 0

\* next((i for i, item in enumerate(self._obras) if item.id == obra_id), None);
\* 0 stands for None
matching_obra_index(list, obra_id) ==
    LET at == {i \in 1..Len(list) : list[i].id = obra_id}
    IN  IF at = {} THEN 0 ELSE CHOOSE i \in at : \A j \in at : i <= j

\* a variant of update that stamps created_at anew
update_created_anew(st, obra_id, updated_obra, t) ==
    LET i == matching_obra_index(st.obras, obra_id)
        result == Obra(updated_obra, st.obras[i].id, t, t)
    IN  IF i # 0
        THEN [store  |-> [st EXCEPT !.obras[i] = result],
              found  |-> TRUE, result |-> <<result>>]
        ELSE [store |-> st, found |-> FALSE, result |-> <<>>]

\* a variant of update that refreshes updated_at on every record of the list
update_refresh_all(st, obra_id, updated_obra, t) ==
    LET i == matching_obra_index(st.obras, obra_id)
        result == Obra(updated_obra, st.obras[i].id, st.obras[i].created_at, t)
    IN  IF i # 0
        THEN [store  |-> [st EXCEPT !.obras =
                             [k \in 1..Len(st.obras) |->
                                 IF k = i THEN result
                                 ELSE [st.obras[k] EXCEPT !.updated_at = t]]],
              found  |-> TRUE, result |-> <<result>>]
        ELSE [store |-> st, found |-> FALSE, result |-> <<>>]

\* a variant of update that leaves the autores of the stored record in place
update_keeps_autores(st, obra_id, updated_obra, t) ==
    LET i == matching_obra_index(st.obras, obra_id)
        result == Obra([updated_obra EXCEPT !.autores = st.obras[i].autores],
                       st.obras[i].id, st.obras[i].created_at, t)
    IN  IF i # 0
        THEN [store  |-> [st EXCEPT !.obras[i] = result],
              found  |-> TRUE, result |-> <<result>>]
        ELSE [store |-> st, found |-> FALSE, result |-> <<>>]

\* Obras.update; found = FALSE: it returned None
update(st, obra_id, updated_obra, t) ==
    LET i == matching_obra_index(st.obras, obra_id)
        result == Obra(updated_obra, st.obras[i].id, st.obras[i].created_at, t)
    IN  IF i # 0
        THEN [store  |-> [st EXCEPT !.obras[i] = result],
              found  |-> TRUE, result |-> <<result>>]
        ELSE [store |-> st, found |-> FALSE, result |-> <<>>]

\* a variant of delete that pops the last record, self._obras.pop(), once
\* a match is found
delete_pop_last(st, obra_id) ==
    LET i == matching_obra_index(st.obras, obra_id)
    IN  IF i # 0
        THEN [store  |-> [st EXCEPT !.obras = SubSeq(@, 1, Len(@) - 1)],
              found  |-> TRUE, result |-> <<st.obras[Len(st.obras)]>>]
        ELSE [store |-> st, found |-> FALSE, result |-> <<>>]

\* a variant of delete that fills the place of the removed record with the
\* last record of the list
delete_swap_last(st, obra_id) ==
    LET i == matching_obra_index(st.obras, obra_id)
        n == Len(st.obras)
    IN  IF i # 0
        THEN [store  |-> [st EXCEPT !.obras =
                             [k \in 1..(n - 1) |->
                                 IF k = i THEN st.obras[n] ELSE st.obras[k]]],
              found  |-> TRUE, result |-> <<st.obras[i]>>]
        ELSE [store |-> st, found |-> FALSE, result |-> <<>>]

\* Obras.delete; found = FALSE: it returned None
delete(st, obra_id) ==
    LET i == matching_obra_index(st.obras, obra_id)
    IN  IF i # 0
        THEN [store  |-> [st EXCEPT !.obras = SubSeq(@, 1, i - 1)
                                               \o SubSeq(@, i + 1, Len(@))],
              found  |-> TRUE, result |-> <<st.obras[i]>>]
        ELSE [store |-> st, found |-> FALSE, result |-> <<>>]

\* Obras.get_all
get_all(st) == st.obras

\* Obras.get_all_as_dict_filtered.  filter_date is <<>> (None) or <<d>> with
\* d = [t, aware]: a datetime, timezone-aware when the query gave an offset.
\* created_at comes from utcnow() and is naive, and Python raises TypeError
\* on comparing a naive with an aware datetime: raised = TRUE.
get_all_as_dict_filtered(st, filter_date) ==
    IF filter_date = <<>> THEN [raised |-> FALSE, list |-> st.obras]
    ELSE IF filter_date[1].aware /\ st.obras # <<>>
    THEN [raised |-> TRUE, list |-> <<>>]
    ELSE [raised |-> FALSE,
          list   |-> SelectSeq(st.obras,
                               LAMBDA o : o.created_at >= filter_date[1].t)]

(***************************************************************************)
(* The handlers, as functions of the store they act on.  A response is     *)
(* [op, status, body, text]: body is the list of records (or dicts) the    *)
(* response carries, a single record being a list of one, and text is the  *)
(* CSV document of an export.  Status 500 is an exception no handler       *)
(* catches.                                                                *)
(***************************************************************************)
Response(op, status, body, text) ==
    [op |-> op, status |-> status, body |-> body, text |-> text]

NoResponse == Response("", 0, <<>>, <<>>)

RECURSIVE import_rows_newest_first(_, _, _, _, _, _)
\* a variant of import_rows that puts each new record at the head of results,
\* results.insert(0, ...)
import_rows_newest_first(st, fieldnames, rows, k, ts, results) ==
    IF k > Len(rows) THEN [store |-> st, results |-> results, raised |-> ""]
    ELSE
      LET titulo  == RowGet(fieldnames, rows[k], TITULO)
          editora == RowGet(fieldnames, rows[k], EDITORA)
          foto    == RowGet(fieldnames, rows[k], FOTO)
          autores == RowGet(fieldnames, rows[k], AUTORES)
          lit     == literal_eval(autores.value)
          obra    == [titulo |-> titulo.value, editora |-> editora.value,
                      foto |-> foto.value, autores |-> lit.value]
          a       == append(st, obra, ts[2 * k - 1], ts[2 * k])
      IN  IF ~(titulo.found /\ editora.found /\ foto.found /\ autores.found)
          THEN [store |-> st, results |-> results, raised |-> "KeyError"]
          ELSE IF ~lit.ok
          THEN [store |-> st, results |-> results, raised |-> "ValueError"]
          ELSE IF None \in {titulo.value, editora.value, foto.value}
          THEN [store |-> st, results |-> results, raised |-> "ValidationError"]
          ELSE import_rows_newest_first(a.store, fieldnames, rows, k + 1, ts,
                                        <<a.result>> \o results)

RECURSIVE import_rows(_, _, _, _, _, _)
\* the loop of post_upload_obras from row k on; ts are the values the clock
\* returns to the appends, two for each.  raised names the exception that
\* ended the loop ("" when it ran to the end).
import_rows(st, fieldnames, rows, k, ts, results) ==
    IF k > Len(rows) THEN [store |-> st, results |-> results, raised |-> ""]
    ELSE
      LET titulo  == RowGet(fieldnames, rows[k], TITULO)
          editora == RowGet(fieldnames, rows[k], EDITORA)
          foto    == RowGet(fieldnames, rows[k], FOTO)
          autores == RowGet(fieldnames, rows[k], AUTORES)
          lit     == literal_eval(autores.value)
          obra    == [titulo |-> titulo.value, editora |-> editora.value,
                      foto |-> foto.value, autores |-> lit.value]
          a       == append(st, obra, ts[2 * k - 1], ts[2 * k])
      IN  IF ~(titulo.found /\ editora.found /\ foto.found /\ autores.found)
          THEN [store |-> st, results |-> results, raised |-> "KeyError"]
          ELSE IF ~lit.ok
          THEN [store |-> st, results |-> results, raised |-> "ValueError"]
          ELSE IF None \in {titulo.value, editora.value, foto.value}
          THEN [store |-> st, results |-> results, raised |-> "ValidationError"]
          ELSE import_rows(a.store, fieldnames, rows, k + 1, ts,
                           Append(results, a.result))

\* post_upload_obras, dr being csv.DictReader(file, skipinitialspace=True):
\* only KeyError is caught and answered 400; the rows appended before an
\* exception stay in the store
post_upload_obras(st, dr, ts) ==
    LET r  == import_rows(st, dr.fieldnames, dr.rows, 1, ts, <<>>)
    IN  [store    |-> r.store,
         results  |-> r.results,
         response |->
            IF r.raised = "KeyError"
            THEN Response("POST /upload-obras", 400, <<>>, <<>>)
            ELSE IF r.raised # "" \/ dr.error
            THEN Response("POST /upload-obras", 500, <<>>, <<>>)
            ELSE Response("POST /upload-obras", 200, r.results, <<>>)]

\* cleanup(temp_file): os.remove
cleanup(on_disk, temp_file) == on_disk \ {temp_file}

(***************************************************************************)
(* Inputs.                                                                 *)
(***************************************************************************)
ObraA == [titulo |-> <<"A">>, editora |-> <<"E">>, foto |-> <<"u">>,
          autores |-> << <<"X">> >>]
ObraB == [titulo |-> <<"B">>, editora |-> <<"F">>, foto |-> <<"v">>,
          autores |-> << <<"Y">>, <<"Z">> >>]

\* a JSON body that also carries the server-managed fields
BodyB == [titulo |-> ObraB.titulo, editora |-> ObraB.editora,
          foto |-> ObraB.foto, autores |-> ObraB.autores,
          id |-> 0, created_at |-> 0, updated_at |-> 0]

Bodies == {ObraA, BodyB}

Ids == 1..(MaxId + 1)

Times == 0..MaxTime

\* data_inicial: absent, or a datetime given without or with a UTC offset
FilterDates == {<<>>} \cup {<<[t |-> x, aware |-> b]>> : x \in Times, b \in BOOLEAN}

\* the values n successive reads of a monotonic clock return from `from` on
ClockReads(from, n) ==
    {ts \in [1..n -> from..MaxTime] : \A i \in 1..n :
        ts[i] >= (IF i = 1 THEN from ELSE ts[i - 1])}

Line(cells) == Join(cells, <<COMMA>>) \o <<LF>>

Header4 == Line(<<TITULO, EDITORA, FOTO, AUTORES>>)
Header3 == Line(<<TITULO, EDITORA, FOTO>>)
RowA    == Line(<< <<"A">>, <<"E">>, <<"u">>, <<"[", "'", "X", "'", "]">> >>)
\* B, F,v,"[""Y"", ""Z""]",extra
RowB    == <<"B", ",", " ", "F", ",", "v", ",", "\"", "[", "\"", "\"", "Y",
             "\"", "\"", ",", " ", "\"", "\"", "Z", "\"", "\"", "]", "\"", LF>>
RowBad  == Line(<< <<"B">>, <<"F">>, <<"v">>, <<"Y">> >>)
RowCut  == Line(<< <<"B">>, <<"F">> >>)

Uploads ==
    { Header4, Header4 \o RowA, Header4 \o RowA \o RowB,
      Header3, Header3 \o RowA,
      Header4 \o RowA \o RowBad, Header4 \o RowCut }

\* csv.DictReader of each upload, and the number of its data rows
Parsed == [file \in Uploads |-> DictReader(file)]

RowCount == [file \in Uploads |-> Len(Parsed[file].rows)]

(***************************************************************************)
(* The service: one request at a time (the handlers are coroutines that    *)
(* never await, so each runs to its end on the event loop).                *)
(***************************************************************************)
Workers == {1, 2}

\* the locals of a worker: the request (op, obra_id, obra), the position of
\* the generator over the list, matching_obra_index, and the values read so far
IdleLoc ==
    [op |-> "", obra_id |-> 0, obra |-> <<>>, pos |-> 0, index |-> 0,
     tmp |-> 0, created_at |-> 0, t |-> 0, result |-> <<>>]

Init ==
    /\ obras = NewObras
    /\ now = 0
    /\ response = NoResponse
    /\ files = {}
    /\ sending = {}
    /\ issued = <<>>
    /\ deleted = {}
    /\ fresh = NewObras
    /\ pc = [w \in Workers |-> "idle"]
    /\ loc = [w \in Workers |-> IdleLoc]

Ghosts(ids, gone) ==
    /\ issued' = issued \o ids
    /\ deleted' = deleted \cup gone

\* POST /obras
PostObras(body, ts) ==
    /\ obras.current_id < MaxId
    /\ LET a == append(obras, CreateObra(body), ts[1], ts[2])
       IN  /\ obras' = a.store
           /\ now' = ts[2]
           /\ response' = Response("POST /obras", 200, <<CreateObra(a.result)>>, <<>>)
           /\ Ghosts(<<a.result.id>>, {})
    /\ UNCHANGED <<files, sending, fresh, pc, loc>>

\* POST /upload-obras
PostUploadObras(file, ts) ==
    /\ obras.current_id + RowCount[file] <= MaxId
    /\ LET u == post_upload_obras(obras, Parsed[file], ts)
           n == Len(u.store.obras) - Len(obras.obras)
       IN  /\ obras' = u.store
           /\ now' = IF n = 0 THEN now ELSE ts[2 * n]
           /\ response' = u.response
           /\ Ghosts([i \in 1..n |-> u.store.obras[Len(obras.obras) + i].id], {})
    /\ UNCHANGED <<files, sending, fresh, pc, loc>>

\* GET /obras
GetObras ==
    /\ response' = Response("GET /obras", 200, get_all(obras), <<>>)
    /\ UNCHANGED <<obras, now, files, sending, issued, deleted, fresh, pc, loc>>

\* GET /file-obras.  written = FALSE: writing the CSV raised (an I/O error),
\* which leaves the `with` block with the file closed and, as it was made
\* with delete=False, still on disk.
GetFileObras(data_inicial) ==
    /\ LET r == get_all_as_dict_filtered(obras, data_inicial)
       IN  IF r.raised
           THEN /\ response' = Response("GET /file-obras", 500, <<>>, <<>>)
                /\ UNCHANGED <<files, sending>>
           ELSE IF r.list = <<>>
           THEN /\ response' = Response("GET /file-obras", 404, <<>>, <<>>)
                /\ UNCHANGED <<files, sending>>
           ELSE \E f \in (1..MaxFiles) \ files, written \in BOOLEAN :
                /\ files' = files \cup {f}
                /\ IF written
                   THEN /\ sending' = sending \cup {f}
                        /\ response' = Response("GET /file-obras", 200, r.list,
                                                WriteCsv(r.list))
                   ELSE /\ sending' = sending
                        /\ response' = Response("GET /file-obras", 500, <<>>, <<>>)
    /\ UNCHANGED <<obras, now, issued, deleted, fresh, pc, loc>>

\* The FileResponse of file f has been sent: the framework then runs the
\* BackgroundTask, cleanup(f.name).
Transmitted(f) ==
    /\ f \in sending
    /\ sending' = sending \ {f}
    /\ files' = cleanup(files, f)
    /\ UNCHANGED <<obras, now, response, issued, deleted, fresh, pc, loc>>

\* Sending the FileResponse of file f raised: the framework runs the
\* background task only after the body has been sent, so cleanup is not run.
TransmitFailed(f) ==
    /\ f \in sending
    /\ sending' = sending \ {f}
    /\ UNCHANGED <<obras, now, response, files, issued, deleted, fresh, pc, loc>>

\* PUT /obras/{update_id}
PutObras(update_id, body, t) ==
    /\ LET u == update(obras, update_id, CreateObra(body), t)
       IN  /\ obras' = u.store
           /\ now' = IF u.found THEN t ELSE now
           /\ response' = IF u.found
                          THEN Response("PUT /obras", 200, u.result, <<>>)
                          ELSE Response("PUT /obras", 404, <<>>, <<>>)
    /\ UNCHANGED <<files, sending, issued, deleted, fresh, pc, loc>>

\* DELETE /obras/{delete_id}
DeleteObras(delete_id) ==
    /\ LET d == delete(obras, delete_id)
       IN  /\ obras' = d.store
           /\ response' = IF d.found
                          THEN Response("DELETE /obras", 200, d.result, <<>>)
                          ELSE Response("DELETE /obras", 404, <<>>, <<>>)
           /\ Ghosts(<<>>, IF d.found THEN {delete_id} ELSE {})
    /\ UNCHANGED <<now, files, sending, fresh, pc, loc>>

Next ==
    \/ \E body \in Bodies : \E ts \in ClockReads(now, 2) : PostObras(body, ts)
    \/ \E file \in Uploads : \E ts \in ClockReads(now, 2 * RowCount[file]) :
          PostUploadObras(file, ts)
    \/ GetObras
    \/ \E i \in Ids, body \in Bodies : \E t \in ClockReads(now, 1) :
          PutObras(i, body, t[1])
    \/ \E i \in Ids : DeleteObras(i)

Spec == Init /\ [][Next]_vars

(***************************************************************************)
(* The export and its temporary file, on a store that works are added to   *)
(* and deleted from.                                                       *)
(***************************************************************************)
NextExport ==
    \/ \E body \in Bodies : \E ts \in ClockReads(now, 2) : PostObras(body, ts)
    \/ \E i \in Ids : DeleteObras(i)
    \/ \E d \in FilterDates : GetFileObras(d)
    \/ \E f \in sending : Transmitted(f)
    \/ \E f \in sending : TransmitFailed(f)

SpecExport == Init /\ [][NextExport]_vars

(***************************************************************************)
(* The CSV round trip: a store holding works over CsvObras is exported,    *)
(* and the exported document is uploaded to a fresh store.                 *)
(***************************************************************************)
CsvTitulos  == { <<"A">>, <<" ", "A">>, <<"A", ",", "\"">> }
CsvEditoras == { <<"E">>, <<" ", "E", ",">> }
CsvAutores  == { <<>>, << <<"X">> >>, << <<"X">>, <<" ", "Y", ",", "\"">> >> }

CsvObras ==
    {[titulo |-> t, editora |-> e, foto |-> <<"u">>, autores |-> a] :
        t \in CsvTitulos, e \in CsvEditoras, a \in CsvAutores}

RECURSIVE AppendAll(_, _)
\* the store after appending the works of the list, in order, at time 0
AppendAll(st, list) ==
    IF list = <<>> THEN st
    ELSE AppendAll(append(st, list[1], 0, 0).store, Tail(list))

CsvStores ==
    UNION {{AppendAll(NewObras, list) : list \in [1..n -> CsvObras]} : n \in 0..MaxRecs}

InitCsv ==
    /\ obras \in CsvStores
    /\ now = 0
    /\ response = NoResponse
    /\ files = {}
    /\ sending = {}
    /\ issued = [i \in 1..Len(obras.obras) |-> i]
    /\ deleted = {}
    /\ fresh = NewObras
    /\ pc = [w \in Workers |-> "idle"]
    /\ loc = [w \in Workers |-> IdleLoc]

\* POST /upload-obras of the document the latest export delivered, to the
\* fresh store
ImportExported ==
    /\ response.op = "GET /file-obras"
    /\ response.status = 200
    /\ fresh = NewObras
    /\ \E dr \in {DictReader(response.text)} :
       \E ts \in ClockReads(now, 2 * Len(dr.rows)) :
       \E u \in {post_upload_obras(fresh, dr, ts)} :
          /\ fresh' = u.store
          /\ now' = IF u.store.obras = <<>> THEN now
                    ELSE u.store.obras[Len(u.store.obras)].created_at
          /\ response' = u.response
    /\ UNCHANGED <<obras, files, sending, issued, deleted, pc, loc>>

NextCsv ==
    \/ GetFileObras(<<>>)
    \/ \E f \in sending : Transmitted(f)
    \/ \E f \in sending : TransmitFailed(f)
    \/ ImportExported

SpecCsv == InitCsv /\ [][NextCsv]_vars

(***************************************************************************)
(* Parallel workers sharing the store.  The code takes no lock, so the     *)
(* methods of Obras interleave at their reads and writes of                *)
(* self._current_id and self._obras; each action below is one such access  *)
(* with the local computation that follows it.                             *)
(***************************************************************************)
Go(w, to, changes) ==
    /\ pc' = [pc EXCEPT ![w] = to]
    /\ loc' = [loc EXCEPT ![w] = changes]

Return(w, resp) ==
    /\ pc' = [pc EXCEPT ![w] = "idle"]
    /\ loc' = [loc EXCEPT ![w] = IdleLoc]
    /\ response' = resp

\* the workers inside append that have not yet taken their id
Pending == {w \in Workers : pc[w] \in {"append_load", "append_store", "append_id"}}

\* a worker takes a request: obras.append(obra)
CallAppend(w, body) ==
    /\ pc[w] = "idle"
    /\ Len(issued) + Cardinality(Pending) < MaxCalls
    /\ Go(w, "append_load", [IdleLoc EXCEPT !.op = "POST /obras", !.obra = CreateObra(body)])
    /\ UNCHANGED <<obras, now, response, files, sending, issued, deleted, fresh>>

\* obras.update(obra_id, obra) or obras.delete(obra_id): the generator starts
CallScan(w, op, obra_id, body) ==
    /\ pc[w] = "idle"
    /\ Go(w, "scan", [IdleLoc EXCEPT !.op = op, !.obra_id = obra_id,
                                     !.obra = CreateObra(body), !.pos = 1])
    /\ UNCHANGED <<obras, now, response, files, sending, issued, deleted, fresh>>

\* self._current_id += 1: the read of the attribute
AppendLoad(w) ==
    /\ pc[w] = "append_load"
    /\ Go(w, "append_store", [loc[w] EXCEPT !.tmp = obras.current_id])
    /\ UNCHANGED <<obras, now, response, files, sending, issued, deleted, fresh>>

\* self._current_id += 1: the write of the sum
AppendStore(w) ==
    /\ pc[w] = "append_store"
    /\ obras' = [obras EXCEPT !.current_id = loc[w].tmp + 1]
    /\ Go(w, "append_id", loc[w])
    /\ UNCHANGED <<now, response, files, sending, issued, deleted, fresh>>

\* id=self._current_id, updated_at=utcnow(), and the construction of the Obra
AppendId(w, ts) ==
    /\ pc[w] = "append_id"
    /\ now' = ts[2]
    /\ issued' = Append(issued, obras.current_id)
    /\ Go(w, "append_list",
          [loc[w] EXCEPT !.result = <<Obra(loc[w].obra, obras.current_id, ts[2], ts[1])>>])
    /\ UNCHANGED <<obras, response, files, sending, deleted, fresh>>

\* self._obras.append(result); return result
AppendList(w) ==
    /\ pc[w] = "append_list"
    /\ obras' = [obras EXCEPT !.obras = Append(@, loc[w].result[1])]
    /\ Return(w, Response("POST /obras", 200, <<CreateObra(loc[w].result[1])>>, <<>>))
    /\ UNCHANGED <<now, files, sending, issued, deleted, fresh>>

\* one step of next(i for i, item in enumerate(self._obras) if item.id == obra_id):
\* the list iterator ends, or yields the item at its position
Scan(w) ==
    /\ pc[w] = "scan"
    /\ IF loc[w].pos > Len(obras.obras)
       THEN Return(w, Response(loc[w].op, 404, <<>>, <<>>))
       ELSE /\ IF obras.obras[loc[w].pos].id = loc[w].obra_id
               THEN Go(w, IF loc[w].op = "PUT /obras" THEN "update_created_at" ELSE "delete_pop",
                       [loc[w] EXCEPT !.index = loc[w].pos])
               ELSE Go(w, "scan", [loc[w] EXCEPT !.pos = @ + 1])
            /\ UNCHANGED response
    /\ UNCHANGED <<obras, now, files, sending, issued, deleted, fresh>>

\* self._obras[index] on a list that may have become shorter: IndexError
InRange(w) == loc[w].index <= Len(obras.obras)

IndexError(w) == Return(w, Response(loc[w].op, 500, <<>>, <<>>))

\* created_at=self._obras[matching_obra_index].created_at
UpdateCreatedAt(w) ==
    /\ pc[w] = "update_created_at"
    /\ IF InRange(w)
       THEN /\ Go(w, "update_id",
                  [loc[w] EXCEPT !.created_at = obras.obras[loc[w].index].created_at])
            /\ UNCHANGED response
       ELSE IndexError(w)
    /\ UNCHANGED <<obras, now, files, sending, issued, deleted, fresh>>

\* updated_at=utcnow(), id=self._obras[matching_obra_index].id
UpdateId(w, t) ==
    /\ pc[w] = "update_id"
    /\ now' = t
    /\ IF InRange(w)
       THEN /\ Go(w, "update_store",
                  [loc[w] EXCEPT !.t = t, !.tmp = obras.obras[loc[w].index].id])
            /\ UNCHANGED response
       ELSE IndexError(w)
    /\ UNCHANGED <<obras, files, sending, issued, deleted, fresh>>

\* self._obras[matching_obra_index] = Obra(...)
UpdateStore(w) ==
    /\ pc[w] = "update_store"
    /\ IF InRange(w)
       THEN /\ obras' = [obras EXCEPT !.obras[loc[w].index] =
                            Obra(loc[w].obra, loc[w].tmp, loc[w].created_at, loc[w].t)]
            /\ Go(w, "update_return", loc[w])
            /\ UNCHANGED response
       ELSE /\ IndexError(w)
            /\ UNCHANGED obras
    /\ UNCHANGED <<now, files, sending, issued, deleted, fresh>>

\* return self._obras[matching_obra_index]
UpdateReturn(w) ==
    /\ pc[w] = "update_return"
    /\ IF InRange(w)
       THEN Return(w, Response(loc[w].op, 200, <<obras.obras[loc[w].index]>>, <<>>))
       ELSE IndexError(w)
    /\ UNCHANGED <<obras, now, files, sending, issued, deleted, fresh>>

\* self._obras.pop(matching_obra_index)
DeletePop(w) ==
    /\ pc[w] = "delete_pop"
    /\ IF InRange(w)
       THEN /\ obras' = [obras EXCEPT !.obras = SubSeq(@, 1, loc[w].index - 1)
                                               \o SubSeq(@, loc[w].index + 1, Len(@))]
            /\ deleted' = deleted \cup {loc[w].obra_id}
            /\ Return(w, Response(loc[w].op, 200, <<obras.obras[loc[w].index]>>, <<>>))
       ELSE /\ IndexError(w)
            /\ UNCHANGED <<obras, deleted>>
    /\ UNCHANGED <<now, files, sending, issued, fresh>>

NextConc ==
    \E w \in Workers :
        \/ CallAppend(w, ObraA)
        \/ \E i \in 1..MaxCalls : CallScan(w, "PUT /obras", i, BodyB)
        \/ \E i \in 1..MaxCalls : CallScan(w, "DELETE /obras", i, BodyB)
        \/ AppendLoad(w)
        \/ AppendStore(w)
        \/ \E ts \in ClockReads(now, 2) : AppendId(w, ts)
        \/ AppendList(w)
        \/ Scan(w)
        \/ UpdateCreatedAt(w)
        \/ \E t \in ClockReads(now, 1) : UpdateId(w, t[1])
        \/ UpdateStore(w)
        \/ UpdateReturn(w)
        \/ DeletePop(w)

SpecConc == Init /\ [][NextConc]_vars

(***************************************************************************)
(* The claims.                                                             *)
(***************************************************************************)
IdsOf(list) == {list[k].id : k \in 1..Len(list)}

HasId(st, i) == i \in IdsOf(st.obras)

\* the record of the store with id i
ById(st, i) == st.obras[CHOOSE k \in 1..Len(st.obras) : st.obras[k].id = i]

\* C1: every successful append assigns an id strictly greater than every id
\* assigned before it, so no id is given to a second record, also after the
\* record that held it was deleted: the ids issued are strictly increasing,
\* and the records of the store hold distinct ids, each of them issued.
C1_IdsNeverReused ==
    /\ \A i, j \in 1..Len(issued) : i < j => issued[i] < issued[j]
    /\ \A i, j \in 1..Len(obras.obras) :
          i # j => obras.obras[i].id # obras.obras[j].id
    /\ IdsOf(obras.obras) \subseteq {issued[k] : k \in 1..Len(issued)}

\* id 1 was deleted and the create that followed was given id 2
C1_Witness ==
    /\ response.op = "POST /obras"
    /\ deleted = {1}
    /\ issued = <<1, 2>>
    /\ IdsOf(obras.obras) = {2}

\* C2: for every record of the store, in every reachable state,
\* updated_at >= created_at (the clock being monotonic and free to advance
\* between any two reads).
C2_UpdatedNotBeforeCreated ==
    \A k \in 1..Len(obras.obras) :
        obras.obras[k].updated_at >= obras.obras[k].created_at

\* C3: the id and created_at of a stored record never change: a record that
\* stays in the store keeps its created_at over every step, and a successful
\* update(id, payload) returns a record with that id and the created_at the
\* record had, whatever the payload carries.
C3_IdAndCreatedAtFixed ==
    [][ /\ \A i \in IdsOf(obras.obras) \cap IdsOf(obras'.obras) :
              ById(obras', i).created_at = ById(obras, i).created_at
        /\ response'.op = "PUT /obras" =>
              \A i \in Ids, body \in Bodies, t \in Times :
                  (PutObras(i, body, t) /\ response'.status = 200) =>
                      /\ response'.body[1].id = i
                      /\ response'.body[1].created_at = ById(obras, i).created_at
                      /\ ById(obras', i) = response'.body[1] ]_vars

\* an update has succeeded whose payload carried an id and a created_at other
\* than the record's
C3_Witness ==
    /\ response.op = "PUT /obras"
    /\ response.status = 200
    /\ response.body[1].titulo = BodyB.titulo
    /\ response.body[1].id # BodyB.id
    /\ response.body[1].created_at # BodyB.created_at

\* C4: once delete(id) has succeeded, no later list_all or list_filtered
\* result holds a record with that id: in every state, no id whose delete
\* succeeded is in what get_all or get_all_as_dict_filtered (for any filter
\* date) return, nor in the body of a GET /obras response.
C4_DeletedNeverListed ==
    \A i \in deleted :
        /\ i \notin IdsOf(get_all(obras))
        /\ \A d \in FilterDates :
              i \notin IdsOf(get_all_as_dict_filtered(obras, d).list)
        /\ response.op = "GET /obras" => i \notin IdsOf(response.body)

\* a list that was answered after a delete and later appends
C4_Witness ==
    /\ response.op = "GET /obras"
    /\ 1 \in deleted
    /\ Len(response.body) >= 2

\* C5: update(id, payload) and delete(id) answer 404 exactly when no record
\* with that id is in the store, and then leave the record sequence and the
\* id counter as they were.
C5_NotFoundExactlyWhenAbsent ==
    [][ /\ response'.op = "PUT /obras" =>
              \A i \in Ids, body \in Bodies, t \in Times :
                  PutObras(i, body, t) =>
                      /\ (response'.status = 404) <=> ~HasId(obras, i)
                      /\ response'.status = 404 => obras' = obras
        /\ response'.op = "DELETE /obras" =>
              \A i \in Ids :
                  DeleteObras(i) =>
                      /\ (response'.status = 404) <=> ~HasId(obras, i)
                      /\ response'.status = 404 => obras' = obras ]_vars

\* an update was answered 404 for an id that had been assigned and deleted,
\* on a store that holds other records
C5_Witness ==
    /\ response.op = "PUT /obras"
    /\ response.status = 404
    /\ deleted # {}
    /\ obras.obras # <<>>

\* an upload whose header lacks one of the required columns
MissingColumn(file) ==
    \E c \in {TITULO, EDITORA, FOTO, AUTORES} :
        \A k \in 1..Len(Parsed[file].fieldnames) : Parsed[file].fieldnames[k] # c

\* C6: for every upload whose header lacks a required column, with any
\* number of data rows, POST /upload-obras answers 400 and leaves the store
\* (the record sequence and the id counter) as it was.
C6_MissingColumnRejected ==
    [][ \A file \in Uploads :
          MissingColumn(file) =>
              \A ts \in ClockReads(now, 2 * RowCount[file]) :
                  PostUploadObras(file, ts) =>
                      /\ response'.status = 400
                      /\ obras' = obras ]_vars

\* C7: after a GET /file-obras request has completed, however it ended, the
\* temporary file it created no longer exists: every temporary file on disk
\* belongs to a response that is still being sent.
C7_NoFileLeftBehind == files \subseteq sending

\* C8: with append, update and delete running on parallel workers, no two
\* records ever receive the same id, and the ids of the store are strictly
\* increasing in list order.
C8_ConcurrentIdsIncrease ==
    /\ \A i, j \in 1..Len(issued) : i # j => issued[i] # issued[j]
    /\ \A i, j \in 1..Len(obras.obras) :
          i < j => obras.obras[i].id < obras.obras[j].id

\* the records of the store created at or after the instant of the filter
\* date (all of them when it is absent)
CreatedSince(st, filter_date) ==
    IF filter_date = <<>> THEN st.obras
    ELSE SelectSeq(st.obras, LAMBDA o : o.created_at >= filter_date[1].t)

\* C9: GET /file-obras delivers exactly the records of list_all whose
\* created_at >= T, in their order (all of them without T); it answers 404
\* exactly when that list is empty, creates no temporary file then, and
\* never modifies the store.
C9_FilteredExport ==
    [][ \A d \in FilterDates :
          GetFileObras(d) =>
              /\ (response'.status = 404) <=> (CreatedSince(obras, d) = <<>>)
              /\ response'.status = 404 => files' = files
              /\ response'.status = 200 => response'.body = CreatedSince(obras, d)
              /\ ~get_all_as_dict_filtered(obras, d).raised
              /\ obras' = obras ]_vars

\* the fields of each record that a client supplies
Supplied(list) == [k \in 1..Len(list) |-> CreateObra(list[k])]

\* C10: CSV round trip: importing the export of a store into a fresh store
\* yields as many records, in the same order, with the same titulo, editora,
\* foto and autores.
C10_RoundTrip ==
    response.op = "POST /upload-obras" =>
        /\ response.status = 200
        /\ Supplied(fresh.obras) = Supplied(obras.obras)

\* the ids assigned so far
Issued == {issued[k] : k \in 1..Len(issued)}

\* the records a step has added at the end of the list
Added == SubSeq(obras'.obras, Len(obras.obras) + 1, Len(obras'.obras))

\* C11 as stated: append assigns to the new record the id (maximum id among
\* the records currently in the store) + 1, and 1 when the store is empty, in
\* every reachable state of the store, including states reached after
\* deletions.
C11_NextIdIsMaxPlusOne ==
    [][ \A k \in 1..Len(Added) :
            Added[k].id = Greatest(IdsOf(SubSeq(obras'.obras, 1,
                                                Len(obras.obras) + k - 1))) + 1 ]_vars

\* C11 as amended: append assigns to the new record the id (greatest id
\* assigned so far, by POST /obras or by an import) + 1, and 1 when no id was
\* assigned yet; that is (maximum id among the records in the store) + 1
\* whenever the record that was given the greatest id is still in the store.
C11_NextIdAfterGreatestIssued ==
    [][ \A k \in 1..Len(Added) :
            /\ Added[k].id = Greatest(Issued \cup IdsOf(SubSeq(Added, 1, k - 1))) + 1
            /\ (k = 1 /\ Greatest(Issued) = Greatest(IdsOf(obras.obras))) =>
                   Added[k].id = Greatest(IdsOf(obras.obras)) + 1 ]_vars

\* the record with the greatest id, 2, was deleted and the create that
\* followed was given id 3, the store holding id 1 only
C11_Witness ==
    /\ response.op = "POST /obras"
    /\ deleted = {2}
    /\ issued = <<1, 2, 3>>
    /\ IdsOf(obras.obras) = {1, 3}

\* C12: the k-th successful append since process start, made by POST /obras
\* or by a row of an import, receives id k: the counter equals the number of
\* successful appends so far, is at least every id in the store, and is left
\* unchanged by updates, deletes, list operations and failed requests.
C12_CounterCountsAppends ==
    [][ /\ \A k \in 1..Len(issued') : issued'[k] = k
        /\ obras'.current_id = Len(issued')
        /\ \A i \in IdsOf(obras'.obras) : i <= obras'.current_id
        /\ (\/ response'.op \in {"PUT /obras", "DELETE /obras", "GET /obras"}
            \/ response'.status # 200) =>
               obras'.current_id = obras.current_id ]_vars

\* C13: the updated_at of a stored record is non-decreasing over time and
\* changes only through a successful update of that same record: over every
\* step, a record that stays in the store has an updated_at not less than
\* before, and one that differs only when the step is a PUT answered 200
\* for that record's id.
C13_UpdatedAtOnlyByUpdate ==
    [][ \A i \in IdsOf(obras.obras) \cap IdsOf(obras'.obras) :
            /\ ById(obras', i).updated_at >= ById(obras, i).updated_at
            /\ ById(obras', i).updated_at # ById(obras, i).updated_at =>
                   /\ response'.op = "PUT /obras"
                   /\ response'.status = 200
                   /\ response'.body[1].id = i ]_vars

\* an update has refreshed the updated_at of one record while another record
\* of the store keeps an earlier one
C13_Witness ==
    /\ response.op = "PUT /obras"
    /\ response.status = 200
    /\ response.body[1].updated_at > response.body[1].created_at
    /\ \E k \in 1..Len(obras.obras) :
          /\ obras.obras[k].id # response.body[1].id
          /\ obras.obras[k].updated_at < response.body[1].updated_at

\* the list without its k-th element
Without(list, k) == SubSeq(list, 1, k - 1) \o SubSeq(list, k + 1, Len(list))

\* C14: list_all returns the stored records in the order of their appends:
\* the ids of the list are strictly increasing in every state and GET /obras
\* answers that list; an append leaves the records before it as they were; a
\* successful update leaves the number of records and the id at every
\* position as they were; a successful delete removes exactly the record
\* with the requested id and leaves the others unchanged and in order.
C14_InsertionOrderKept ==
    [][ /\ \A i, j \in 1..Len(obras'.obras) :
              i < j => obras'.obras[i].id < obras'.obras[j].id
        /\ response'.op = "GET /obras" => response'.body = obras.obras
        /\ response'.op \in {"POST /obras", "POST /upload-obras"} =>
              SubSeq(obras'.obras, 1, Len(obras.obras)) = obras.obras
        /\ (response'.op = "PUT /obras" /\ response'.status = 200) =>
              /\ Len(obras'.obras) = Len(obras.obras)
              /\ \A k \in 1..Len(obras.obras) :
                    obras'.obras[k].id = obras.obras[k].id
        /\ (response'.op = "DELETE /obras" /\ response'.status = 200) =>
              \E k \in 1..Len(obras.obras) :
                  /\ \A i \in Ids : DeleteObras(i) => obras.obras[k].id = i
                  /\ response'.body = <<obras.obras[k]>>
                  /\ obras'.obras = Without(obras.obras, k) ]_vars

\* the first of three records was deleted and the two survivors are listed
\* in their order
C14_Witness ==
    /\ response.op = "DELETE /obras"
    /\ response.status = 200
    /\ response.body[1].id = 1
    /\ Len(obras.obras) = 2
    /\ obras.obras[1].id = 2
    /\ obras.obras[2].id = 3

\* the cells of the k-th data row of a parsed upload under the four required
\* columns, the autores cell read as a literal
RowObra(dr, k) ==
    [titulo  |-> RowGet(dr.fieldnames, dr.rows[k], TITULO).value,
     editora |-> RowGet(dr.fieldnames, dr.rows[k], EDITORA).value,
     foto    |-> RowGet(dr.fieldnames, dr.rows[k], FOTO).value,
     autores |-> literal_eval(RowGet(dr.fieldnames, dr.rows[k], AUTORES).value).value]

\* C15: a successful import of N data rows appends N records to the end of
\* the store in row order and returns exactly those N records in that order;
\* their ids are the N consecutive integers following the counter value
\* before the import, and a header-only upload returns 200 with an empty
\* list and changes nothing.
C15_ImportAppendsInRowOrder ==
    [][ response'.op = "POST /upload-obras" =>
          \A file \in Uploads :
          \A ts \in ClockReads(now, 2 * RowCount[file]) :
              PostUploadObras(file, ts) =>
                /\ response'.status = 200 =>
                      /\ Len(response'.body) = RowCount[file]
                      /\ obras'.obras = obras.obras \o response'.body
                      /\ \A k \in 1..RowCount[file] :
                            /\ response'.body[k].id = obras.current_id + k
                            /\ CreateObra(response'.body[k]) = RowObra(Parsed[file], k)
                      /\ obras'.current_id = obras.current_id + RowCount[file]
                /\ RowCount[file] = 0 =>
                      /\ response'.status = 200
                      /\ response'.body = <<>>
                      /\ obras' = obras ]_vars

\* a file of two rows was imported into a store that held one record: the
\* two records returned are those of the rows, in row order, with ids 2 and 3
C15_Witness ==
    /\ response.op = "POST /upload-obras"
    /\ response.status = 200
    /\ Supplied(response.body) = <<ObraA, ObraB>>
    /\ Len(obras.obras) = 3
    /\ response.body[1].id = 2
    /\ response.body[2].id = 3

\* the k-th data row of a parsed upload cannot be turned into a
\* create-request: a required cell is absent from it, or its autores cell
\* does not parse as a list of text
BadRow(dr, k) ==
    \/ \E c \in {TITULO, EDITORA, FOTO, AUTORES} :
          LET cell == RowGet(dr.fieldnames, dr.rows[k], c)
          IN  ~cell.found \/ cell.value = None
    \/ ~literal_eval(RowGet(dr.fieldnames, dr.rows[k], AUTORES).value).ok

BadUploads == {file \in Uploads : \E k \in 1..RowCount[file] : BadRow(Parsed[file], k)}

\* C16: an import is all-or-nothing: if any data row of the upload cannot be
\* turned into a create-request, the request is answered 400 and none of the
\* upload's rows, the valid rows before the bad one included, is persisted.
C16_ImportAllOrNothing ==
    [][ response'.op = "POST /upload-obras" =>
          \A file \in BadUploads :
          \A ts \in ClockReads(now, 2 * RowCount[file]) :
              PostUploadObras(file, ts) =>
                  /\ response'.status = 400
                  /\ obras' = obras ]_vars

\* the steps of update after it has located the record
UpdateSteps == {"update_created_at", "update_id", "update_store", "update_return"}

\* C17: when update(id, payload) runs on one worker while another worker
\* deletes a different record (the record with the requested id has not been
\* deleted), no step of update after it located the record fails with an
\* index error, and the step that writes to the list changes only the record
\* with the requested id and leaves that id on it.
C17_UpdateUnderDelete ==
    [][ \A w \in Workers :
          (pc[w] \in UpdateSteps /\ pc'[w] # pc[w] /\ loc[w].obra_id \notin deleted) =>
              /\ ~(pc'[w] = "idle" /\ response'.status = 500)
              /\ Len(obras'.obras) = Len(obras.obras)
              /\ \A k \in 1..Len(obras.obras) :
                    obras'.obras[k] # obras.obras[k] =>
                        /\ obras.obras[k].id = loc[w].obra_id
                        /\ obras'.obras[k].id = loc[w].obra_id ]_vars

\* C18: a successful update(id, payload) changes only the record with that
\* id, replacing its titulo, editora, foto and autores by the payload's and
\* refreshing its updated_at; the number of records, every other record and
\* the id counter are left unchanged.
C18_UpdateChangesOneRecord ==
    [][ response'.op = "PUT /obras" =>
          \A i \in Ids, body \in Bodies, t \in Times :
              (PutObras(i, body, t) /\ response'.status = 200) =>
                  /\ Len(obras'.obras) = Len(obras.obras)
                  /\ obras'.current_id = obras.current_id
                  /\ \A k \in 1..Len(obras.obras) :
                        obras.obras[k].id # i => obras'.obras[k] = obras.obras[k]
                  /\ CreateObra(ById(obras', i)) = CreateObra(body)
                  /\ ById(obras', i).updated_at = t ]_vars

\* a record created as ObraA at time 0 was updated with the payload BodyB at
\* time 1, in a store that holds other records
C18_Witness ==
    /\ response.op = "PUT /obras"
    /\ response.status = 200
    /\ CreateObra(response.body[1]) = CreateObra(BodyB)
    /\ response.body[1].created_at = 0
    /\ response.body[1].updated_at = 1
    /\ Len(obras.obras) >= 2
    /\ \E k \in 1..Len(obras.obras) : CreateObra(obras.obras[k]) = ObraA

============================================================================
